---- MODULE Spec2Model ----
(***************************************************************************)
(* Model of the Express backend of the study assistant: the routes of      *)
(* backend/routes/notes.js and backend/routes/youtube.js, the multer       *)
(* upload middleware, the two MongoDB collections (Note, YouTubeVideo)     *)
(* and the external AI backend with its own vector store; and of the       *)
(* transcript form of the React view YouTubeChat, which posts to the       *)
(* process-pasted route.                                                   *)
(*                                                                         *)
(* Every handler is an async function.  Between two awaits its code runs   *)
(* without interruption, so each handler is split at its awaits: one       *)
(* action per awaited call (the call takes effect, then the handler runs   *)
(* on to its next await or to its response).  Spec, SpecUsers and          *)
(* SpecPaste run the requests one after the other; SpecYoutube,            *)
(* SpecVideoQuery and SpecNotes have two requests in flight and interleave *)
(* their awaits.                                                           *)
(*                                                                         *)
(* The AI backend is outside the repository.  It is modelled by what the   *)
(* routes see of it: each call answers or throws, an ingest adds the       *)
(* content to the vector store of the calling user, a delete removes it,   *)
(* and the info calls report 0 exactly when the store holds nothing for    *)
(* the user.                                                               *)
(***************************************************************************)
EXTENDS Integers, Sequences, FiniteSets, TLC

\* ---- bounds -----------------------------------------------------------
MaxId == 2         \* document ids (_id) the document store hands out
MaxCount == 2      \* largest notes_count / videos_count the AI backend reports
MaxMessages == 2   \* chat messages the YouTube view collects

Reqs == {1, 2}      \* the requests that can be in flight at the same time
Users == {"A", "B"}
Ids == 1..MaxId

\* ---- request inputs ---------------------------------------------------
Undefined == "<undefined>"              \* a body field that is absent
NoFile == "<none>"                      \* multipart request without a file part
MimeTypes == {"application/pdf", "text/plain", "image/png"}
FileNames == {"a.pdf"}
Questions == {Undefined, "", "why?"}
VideoUrls == {Undefined, "v1", "v2"}
Null == "<null>"                        \* a body field that is JSON null
Languages == {Undefined, Null, "Hindi", "french"}
MinTranscriptLength == 50               \* youtube.js line 212
\* a pasted transcript: its length and how much of it trim() removes
NoTranscript == [defined |-> FALSE, length |-> 0, blank |-> 0]
Transcripts == {NoTranscript,
                [defined |-> TRUE, length |-> 0, blank |-> 0],
                [defined |-> TRUE, length |-> 60, blank |-> 11],
                [defined |-> TRUE, length |-> 52, blank |-> 2]}
VideoIds == {"v1", "v2"}
\* what the user has typed into the transcript field of the YouTube view
PastedTexts == {[defined |-> TRUE, length |-> 0, blank |-> 0],
                [defined |-> TRUE, length |-> 3, blank |-> 3],
                [defined |-> TRUE, length |-> 60, blank |-> 11],
                [defined |-> TRUE, length |-> 52, blank |-> 2]}

VARIABLES
  notes,        \* Note collection: set of [id, userId, filename, chunksCount]
  videos,       \* YouTubeVideo collection: set of [id, userId, videoId, chunksCount]
  aiNotes,      \* AI backend, note vectors: set of [userId, filename]
  aiVideos,     \* AI backend, video vectors: set of [userId, videoId]
  nextId,       \* next _id of the document store
  op,           \* op[r]: the route request r runs, "idle" when the slot is free
  pc,           \* pc[r]: the await the handler of r is suspended at
  user,         \* user[r]: req.user._id set by the auth middleware
  arg,          \* arg[r]: the request's body, file and params
  tmpFile,      \* tmpFile[r]: the file multer wrote to uploads/ still exists
  mongoDocs,    \* mongoDocs[r]: result of the handler's find / findOne
  aiResponse,   \* aiResponse[r]: data of the handler's last AI response
  saved,        \* saved[r]: the document the handler inserted, if any
  calls,        \* calls[r]: AI-backend calls issued by r, in order
  dbCalls,      \* dbCalls[r]: document-store calls issued by r, in order
  resp,         \* resp[r]: the response sent, status 0 while none is sent
  messages,     \* YouTubeChat: the messages state, a list of [type, content]
  processing,   \* YouTubeChat: the processing state
  loading,      \* YouTubeChat: the loading state
  processedVideos, \* YouTubeChat: the processedVideos state, a set of records
  client        \* client[r]: the frontend callback that awaits request r, "" if none

vars == <<notes, videos, aiNotes, aiVideos, nextId, op, pc, user, arg,
          tmpFile, mongoDocs, aiResponse, saved, calls, dbCalls, resp,
          messages, processing, loading, processedVideos, client>>

stores == <<notes, videos, aiNotes, aiVideos, nextId>>
frontend == <<messages, processing, loading, processedVideos, client>>

\* ---- values -----------------------------------------------------------
NoArg == [mimetype |-> NoFile, originalname |-> "", question |-> Undefined,
          videoUrl |-> Undefined, language |-> Undefined,
          transcript |-> NoTranscript, id |-> 0]

NoAi == [ok |-> FALSE, success |-> FALSE, name |-> "", chunks_count |-> 0,
         notes_count |-> 0, langs |-> FALSE]

NoResp == [status |-> 0, message |-> "", success |-> FALSE, records |-> {},
           synchronized |-> FALSE, vectorCount |-> 0, flag |-> ""]

Respond(status, message) == [NoResp EXCEPT !.status = status, !.message = message]

\* variant of Falsy: only an absent field counts
FalsyOnlyUndefined(x) == x = Undefined

\* JavaScript's !x for the body fields used here (undefined and '' are falsy)
Falsy(x) == x = Undefined \/ x = ""

UserNotes(u) == {n \in notes : n.userId = u}
UserVideos(u) == {v \in videos : v.userId = u}
AiUserNotes(u) == {n \in aiNotes : n.userId = u}
AiUserVideos(u) == {v \in aiVideos : v.userId = u}

\* chunks_count of an ingest: the AI backend's chunking of the content
ChunksOf(content) ==
  CASE content = "a.pdf" -> 2
    [] content = "v1" -> 1
    [] content = "v2" -> 3
    [] OTHER -> 1

\* notes_count of GET /notes-info/:user: 0 when the AI backend holds nothing
\* for the user, otherwise some positive count (files or chunks)
NotesInfoCounts(u) == IF AiUserNotes(u) = {} THEN {0} ELSE 1..MaxCount
VideosInfoCounts(u) == IF AiUserVideos(u) = {} THEN {0} ELSE 1..MaxCount

Init ==
  /\ notes = {} /\ videos = {} /\ aiNotes = {} /\ aiVideos = {}
  /\ nextId = 1
  /\ op = [r \in Reqs |-> "idle"]
  /\ pc = [r \in Reqs |-> "idle"]
  /\ user = [r \in Reqs |-> "A"]
  /\ arg = [r \in Reqs |-> NoArg]
  /\ tmpFile = [r \in Reqs |-> FALSE]
  /\ mongoDocs = [r \in Reqs |-> {}]
  /\ aiResponse = [r \in Reqs |-> NoAi]
  /\ saved = [r \in Reqs |-> {}]
  /\ calls = [r \in Reqs |-> <<>>]
  /\ dbCalls = [r \in Reqs |-> <<>>]
  /\ resp = [r \in Reqs |-> NoResp]
  /\ messages = <<>>
  /\ processing = FALSE
  /\ loading = FALSE
  /\ processedVideos = {}
  /\ client = [r \in Reqs |-> ""]

\* ---- request plumbing ---------------------------------------------------
\* A request arrives and takes the first free slot, authenticated as u.
Begin(r, route, u, a) ==
  /\ op[r] = "idle"
  /\ \A q \in Reqs : q < r => op[q] # "idle"
  /\ op' = [op EXCEPT ![r] = route]
  /\ user' = [user EXCEPT ![r] = u]
  /\ arg' = [arg EXCEPT ![r] = a]

\* res.status(..).json(..): the handler ends.
Send(r, response) ==
  /\ resp' = [resp EXCEPT ![r] = response]
  /\ pc' = [pc EXCEPT ![r] = "done"]

\* the handler moves on to its next await
Goto(r, at) ==
  /\ pc' = [pc EXCEPT ![r] = at]
  /\ resp' = resp

AiCall(r, endpoint, key) ==
  calls' = [calls EXCEPT ![r] = Append(@, [endpoint |-> endpoint,
                                           user_id |-> user[r], key |-> key])]

DbCall(r, name) == dbCalls' = [dbCalls EXCEPT ![r] = Append(@, name)]

\* the slot of an answered request is free for the next one
Close(r) ==
  /\ op' = [op EXCEPT ![r] = "idle"]
  /\ pc' = [pc EXCEPT ![r] = "idle"]
  /\ user' = [user EXCEPT ![r] = "A"]
  /\ arg' = [arg EXCEPT ![r] = NoArg]
  /\ tmpFile' = [tmpFile EXCEPT ![r] = FALSE]
  /\ mongoDocs' = [mongoDocs EXCEPT ![r] = {}]
  /\ aiResponse' = [aiResponse EXCEPT ![r] = NoAi]
  /\ saved' = [saved EXCEPT ![r] = {}]
  /\ calls' = [calls EXCEPT ![r] = <<>>]
  /\ dbCalls' = [dbCalls EXCEPT ![r] = <<>>]
  /\ resp' = [resp EXCEPT ![r] = NoResp]

\* A client other than the frontend has received the response; the connection
\* is closed.
Finish(r) ==
  /\ pc[r] = "done"
  /\ client[r] = ""
  /\ Close(r)
  /\ UNCHANGED <<stores, frontend>>

\* ---- backend/middleware/upload.js ---------------------------------------
\* variant of fileFilter: every file is let through
fileFilterAcceptAll(mimetype) == TRUE

fileFilter(mimetype) == mimetype = "application/pdf" \/ mimetype = "text/plain"

\* ---- POST /notes/upload -------------------------------------------------
\* multer runs first: a rejected file never reaches the handler (Express
\* answers the error with 500), an accepted one is written to uploads/.
NotesUploadStart(r) ==
  \E u \in Users, m \in MimeTypes \cup {NoFile}, f \in FileNames :
    /\ Begin(r, "notes.upload", u,
             [NoArg EXCEPT !.mimetype = m,
                           !.originalname = IF m = NoFile THEN "" ELSE f])
    /\ IF m # NoFile /\ ~fileFilter(m)
         THEN /\ Send(r, Respond(500, "Only PDF and TXT files are allowed!"))
              /\ tmpFile' = tmpFile
         ELSE IF m = NoFile
           THEN /\ Send(r, Respond(400, "No file uploaded"))
                /\ tmpFile' = tmpFile
           ELSE /\ Goto(r, "up_ai")
                /\ tmpFile' = [tmpFile EXCEPT ![r] = TRUE]
    /\ UNCHANGED <<frontend, stores, mongoDocs, aiResponse, saved, calls, dbCalls>>

\* variant of UnlinkSync: the file is left in uploads/
UnlinkSyncKeepsFile(r) == tmpFile[r] /\ tmpFile' = tmpFile

\* fs.unlinkSync(file.path): removes the file, and throws when it is not there
UnlinkSync(r) == tmpFile[r] /\ tmpFile' = [tmpFile EXCEPT ![r] = FALSE]

\* variant of NotesUploadCatch: the catch block also undoes the ingest
NotesUploadCatchRollback(r) ==
  /\ aiNotes' = aiNotes \ {[userId |-> user[r], filename |-> arg[r].originalname]}
  /\ tmpFile' = [tmpFile EXCEPT ![r] = FALSE]
  /\ Send(r, Respond(500, "Upload failed"))

\* catch (error): unlink the temp file if it is still there, answer 500;
\* nothing is sent to the AI backend
NotesUploadCatch(r) ==
  /\ aiNotes' = aiNotes
  /\ IF tmpFile[r] THEN UnlinkSync(r) ELSE tmpFile' = tmpFile
  /\ Send(r, Respond(500, "Upload failed"))

\* variant of NewNote: chunksCount is not taken from the AI response
NewNoteNoChunks(r) ==
  [id |-> nextId, userId |-> user[r], filename |-> aiResponse[r].name,
   chunksCount |-> 0]

\* new Note({ userId, filename, originalName, fileType, chunksCount })
NewNote(r) ==
  [id |-> nextId, userId |-> user[r], filename |-> aiResponse[r].name,
   chunksCount |-> aiResponse[r].chunks_count]

\* await axios.post(/upload-document): the AI backend ingests the file and
\* answers success, answers success=false, or the call throws.
NotesUploadAI(r) ==
  /\ pc[r] = "up_ai"
  /\ AiCall(r, "upload-document", arg[r].originalname)
  /\ \/ /\ aiNotes' = aiNotes \cup {[userId |-> user[r],
                                     filename |-> arg[r].originalname]}
        /\ aiResponse' = [aiResponse EXCEPT ![r] =
               [NoAi EXCEPT !.ok = TRUE, !.success = TRUE,
                            !.name = arg[r].originalname,
                            !.chunks_count = ChunksOf(arg[r].originalname)]]
        /\ Goto(r, "up_save")
        /\ tmpFile' = tmpFile
     \/ /\ aiNotes' = aiNotes
        /\ aiResponse' = [aiResponse EXCEPT ![r] = [NoAi EXCEPT !.ok = TRUE]]
        /\ \/ UnlinkSync(r) /\ Send(r, Respond(500, "Failed to process document"))
           \/ ~tmpFile[r] /\ NotesUploadCatch(r)
     \/ /\ aiResponse' = aiResponse
        /\ NotesUploadCatch(r)
  /\ UNCHANGED <<frontend, notes, videos, aiVideos, nextId, op, user, arg,
                 mongoDocs, saved, dbCalls>>

\* await note.save(), then unlink the temp file and answer; a throwing save or
\* unlink lands in the catch block, which unlinks the file if it is still
\* there and answers 500.
NotesUploadSave(r) ==
  /\ pc[r] = "up_save"
  /\ DbCall(r, "save")
  /\ \/ /\ nextId <= MaxId
        /\ LET note == NewNote(r)
           IN /\ notes' = notes \cup {note}
              /\ saved' = [saved EXCEPT ![r] = {note}]
              /\ \/ /\ UnlinkSync(r)
                    /\ Send(r, [Respond(200, "uploaded") EXCEPT !.success = TRUE,
                                                                !.records = {note}])
                    /\ aiNotes' = aiNotes
                 \/ ~tmpFile[r] /\ NotesUploadCatch(r)
        /\ nextId' = nextId + 1
     \/ /\ UNCHANGED <<notes, nextId, saved>>
        /\ NotesUploadCatch(r)
  /\ UNCHANGED <<frontend, videos, aiVideos, op, user, arg, mongoDocs, aiResponse, calls>>

\* ---- POST /notes/query ---------------------------------------------------
NotesQueryStart(r) ==
  \E u \in Users, q \in Questions :
    /\ Begin(r, "notes.query", u, [NoArg EXCEPT !.question = q])
    /\ IF Falsy(q)
         THEN Send(r, Respond(400, "Question is required"))
         ELSE Goto(r, "nq_find")
    /\ UNCHANGED <<frontend, stores, tmpFile, mongoDocs, aiResponse, saved,
                   calls, dbCalls>>

\* variant of NotesQueryAiError: the failed call is tried once more
NotesQueryAiErrorRetry(r) ==
  IF Len(calls[r]) < 2 THEN Goto(r, pc[r])
                       ELSE Send(r, Respond(500, "Query failed"))

\* a throwing axios call lands in catch (error): answer 500, no second try
NotesQueryAiError(r) == Send(r, Respond(500, "Query failed"))

\* await Note.find({ userId })
NotesQueryFind(r) ==
  /\ pc[r] = "nq_find"
  /\ DbCall(r, "find")
  /\ \/ /\ mongoDocs' = [mongoDocs EXCEPT ![r] = UserNotes(user[r])]
        /\ IF UserNotes(user[r]) = {}
             THEN Send(r, Respond(400, "No notes found. Please upload some notes first."))
             ELSE Goto(r, "nq_info")
     \/ /\ mongoDocs' = mongoDocs
        /\ Send(r, Respond(500, "Query failed"))
  /\ UNCHANGED <<frontend, stores, op, user, arg, tmpFile, aiResponse, saved, calls>>

\* variant of NotesQueryInfo: the notes_count === 0 test is left out
NotesQueryInfoNoCheck(r) ==
  /\ pc[r] = "nq_info"
  /\ AiCall(r, "notes-info", "")
  /\ \/ \E c \in NotesInfoCounts(user[r]) :
          /\ aiResponse' = [aiResponse EXCEPT ![r] =
                 [NoAi EXCEPT !.ok = TRUE, !.notes_count = c]]
          /\ Goto(r, "nq_ask")
     \/ /\ aiResponse' = aiResponse
        /\ NotesQueryAiError(r)
  /\ UNCHANGED <<frontend, stores, op, user, arg, tmpFile, mongoDocs, saved, dbCalls>>

\* await axios.get(/notes-info/:userId)
NotesQueryInfo(r) ==
  /\ pc[r] = "nq_info"
  /\ AiCall(r, "notes-info", "")
  /\ \/ \E c \in NotesInfoCounts(user[r]) :
          /\ aiResponse' = [aiResponse EXCEPT ![r] =
                 [NoAi EXCEPT !.ok = TRUE, !.notes_count = c]]
          /\ IF c = 0
               THEN Send(r, [Respond(400, "Notes found in database but vector data missing. Please re-upload your files.")
                               EXCEPT !.flag = "needsReupload",
                                      !.vectorCount = Cardinality(mongoDocs[r])])
               ELSE Goto(r, "nq_ask")
     \/ /\ aiResponse' = aiResponse
        /\ NotesQueryAiError(r)
  /\ UNCHANGED <<frontend, stores, op, user, arg, tmpFile, mongoDocs, saved, dbCalls>>

\* await axios.post(/query); the AI answer is passed through as it is
NotesQueryAsk(r) ==
  /\ pc[r] = "nq_ask"
  /\ AiCall(r, "query", arg[r].question)
  /\ \/ \E ok \in BOOLEAN :
          /\ aiResponse' = [aiResponse EXCEPT ![r] =
                 [NoAi EXCEPT !.ok = TRUE, !.success = ok]]
          /\ Send(r, [Respond(200, "answer") EXCEPT !.success = ok])
     \/ /\ aiResponse' = [aiResponse EXCEPT ![r] = NoAi]
        /\ NotesQueryAiError(r)
  /\ UNCHANGED <<frontend, stores, op, user, arg, tmpFile, mongoDocs, saved, dbCalls>>

\* ---- GET /notes/my-notes --------------------------------------------------
\* variant of IsSync: any two non-empty stores count as synchronized
IsSyncNonEmpty(mongoLen, notes_count) ==
  (mongoLen > 0 /\ notes_count > 0) \/ (mongoLen = 0 /\ notes_count = 0)

\* the synchronization check of lines 151-152
IsSync(mongoLen, notes_count) ==
  mongoLen = notes_count \/ (mongoLen = 0 /\ notes_count = 0)

\* variant of NotesMyNotesSync: records without vector data are purged
NotesMyNotesSyncPurge(r, c) ==
  LET isSync == IsSync(Cardinality(mongoDocs[r]), c) IN
  /\ notes' = IF mongoDocs[r] # {} /\ c = 0 THEN notes \ UserNotes(user[r])
                                            ELSE notes
  /\ Send(r, [Respond(200, IF isSync THEN "Databases are synchronized"
                                     ELSE "Warning: Database mismatch")
                EXCEPT !.success = TRUE, !.records = mongoDocs[r],
                       !.vectorCount = c, !.synchronized = isSync])

\* lines 150-162: compare the counts and answer; the stores are not touched
NotesMyNotesSync(r, c) ==
  LET isSync == IsSync(Cardinality(mongoDocs[r]), c) IN
  /\ notes' = notes
  /\ Send(r, [Respond(200, IF isSync THEN "Databases are synchronized"
                                     ELSE "Warning: Database mismatch")
                EXCEPT !.success = TRUE, !.records = mongoDocs[r],
                       !.vectorCount = c, !.synchronized = isSync])

NotesMyNotesStart(r) ==
  \E u \in Users :
    /\ Begin(r, "notes.my-notes", u, NoArg)
    /\ Goto(r, "mn_find")
    /\ UNCHANGED <<frontend, stores, tmpFile, mongoDocs, aiResponse, saved,
                   calls, dbCalls>>

\* await Note.find({ userId }).sort(..)
NotesMyNotesFind(r) ==
  /\ pc[r] = "mn_find"
  /\ DbCall(r, "find")
  /\ \/ /\ mongoDocs' = [mongoDocs EXCEPT ![r] = UserNotes(user[r])]
        /\ Goto(r, "mn_info")
     \/ /\ mongoDocs' = mongoDocs
        /\ Send(r, Respond(500, "Failed to get notes"))
  /\ UNCHANGED <<frontend, stores, op, user, arg, tmpFile, aiResponse, saved, calls>>

\* await axios.get(/notes-info/:userId) inside the inner try
NotesMyNotesInfo(r) ==
  /\ pc[r] = "mn_info"
  /\ AiCall(r, "notes-info", "")
  /\ \/ \E c \in NotesInfoCounts(user[r]) :
          /\ aiResponse' = [aiResponse EXCEPT ![r] =
                 [NoAi EXCEPT !.ok = TRUE, !.notes_count = c]]
          /\ NotesMyNotesSync(r, c)
     \/ /\ aiResponse' = aiResponse
        /\ notes' = notes
        /\ Send(r, [Respond(200, "Warning: Cannot connect to AI backend. Vector data may be missing.")
                      EXCEPT !.success = TRUE, !.records = mongoDocs[r]])
  /\ UNCHANGED <<frontend, videos, aiNotes, aiVideos, nextId, op, user, arg, tmpFile,
                 mongoDocs, saved, dbCalls>>

\* ---- DELETE /notes/:noteId ------------------------------------------------
NotesDeleteStart(r) ==
  \E u \in Users, id \in Ids :
    /\ Begin(r, "notes.delete", u, [NoArg EXCEPT !.id = id])
    /\ Goto(r, "nd_find")
    /\ UNCHANGED <<frontend, stores, tmpFile, mongoDocs, aiResponse, saved,
                   calls, dbCalls>>

\* variant of FindOneNote: the filter leaves out the owner
FindOneNoteAnyOwner(noteId, userId) == {n \in notes : n.id = noteId}

\* the filter { _id: noteId, userId } of Note.findOne
FindOneNote(noteId, userId) ==
  {n \in notes : n.id = noteId /\ n.userId = userId}

\* await Note.findOne({ _id: noteId, userId })
NotesDeleteFindOne(r) ==
  /\ pc[r] = "nd_find"
  /\ DbCall(r, "findOne")
  /\ \/ LET note == FindOneNote(arg[r].id, user[r]) IN
        /\ mongoDocs' = [mongoDocs EXCEPT ![r] = note]
        /\ IF note = {}
             THEN Send(r, Respond(404, "Note not found"))
             ELSE Goto(r, "nd_delete")
     \/ /\ mongoDocs' = mongoDocs
        /\ Send(r, Respond(500, "Delete failed"))
  /\ UNCHANGED <<frontend, stores, op, user, arg, tmpFile, aiResponse, saved, calls>>

\* await Note.findByIdAndDelete(noteId)
NotesDeleteFindByIdAndDelete(r) ==
  /\ pc[r] = "nd_delete"
  /\ DbCall(r, "findByIdAndDelete")
  /\ \/ /\ notes' = {n \in notes : n.id # arg[r].id}
        /\ Goto(r, "nd_ai")
     \/ /\ notes' = notes
        /\ Send(r, Respond(500, "Delete failed"))
  /\ UNCHANGED <<frontend, videos, aiNotes, aiVideos, nextId, op, user, arg, tmpFile,
                 mongoDocs, aiResponse, saved, calls>>

\* variant of NotesDeleteAiError: the AI failure fails the request
NotesDeleteAiErrorFails(r) ==
  /\ aiNotes' = aiNotes
  /\ aiResponse' = [aiResponse EXCEPT ![r] = NoAi]
  /\ Send(r, Respond(500, "Delete failed"))

\* catch (aiError) of the inner try: the failure is logged, the handler
\* continues to its res.json and answers 200
NotesDeleteAiError(r) ==
  /\ aiNotes' = aiNotes
  /\ aiResponse' = [aiResponse EXCEPT ![r] = NoAi]
  /\ Send(r, [Respond(200, "Note deleted successfully") EXCEPT !.success = TRUE])

\* await axios.delete(/delete-notes) inside the inner try
NotesDeleteAI(r) ==
  /\ pc[r] = "nd_ai"
  /\ LET note == CHOOSE n \in mongoDocs[r] : TRUE IN
     /\ AiCall(r, "delete-notes", note.filename)
     /\ \/ /\ aiNotes' = aiNotes \ {[userId |-> user[r], filename |-> note.filename]}
           /\ aiResponse' = [aiResponse EXCEPT ![r] = [NoAi EXCEPT !.ok = TRUE]]
           /\ Send(r, [Respond(200, "Note deleted successfully")
                         EXCEPT !.success = TRUE])
        \/ NotesDeleteAiError(r)
  /\ UNCHANGED <<frontend, notes, videos, aiVideos, nextId, op, user, arg, tmpFile,
                 mongoDocs, saved, dbCalls>>

\* ---- POST /notes/cleanup-sync ---------------------------------------------
NotesCleanupSyncStart(r) ==
  \E u \in Users :
    /\ Begin(r, "notes.cleanup-sync", u, NoArg)
    /\ Goto(r, "cs_find")
    /\ UNCHANGED <<frontend, stores, tmpFile, mongoDocs, aiResponse, saved,
                   calls, dbCalls>>

\* await Note.find({ userId })
NotesCleanupSyncFind(r) ==
  /\ pc[r] = "cs_find"
  /\ DbCall(r, "find")
  /\ \/ /\ mongoDocs' = [mongoDocs EXCEPT ![r] = UserNotes(user[r])]
        /\ Goto(r, "cs_info")
     \/ /\ mongoDocs' = mongoDocs
        /\ Send(r, Respond(500, "Cleanup failed"))
  /\ UNCHANGED <<frontend, stores, op, user, arg, tmpFile, aiResponse, saved, calls>>

\* await axios.get(/notes-info/:userId); a failed call counts as notes_count 0
NotesCleanupSyncInfo(r) ==
  /\ pc[r] = "cs_info"
  /\ AiCall(r, "notes-info", "")
  /\ \E ai \in {[NoAi EXCEPT !.ok = TRUE, !.notes_count = c] :
                    c \in NotesInfoCounts(user[r])} \cup {NoAi} :
       LET mongoLen == Cardinality(mongoDocs[r]) IN
       /\ aiResponse' = [aiResponse EXCEPT ![r] = ai]
       /\ IF mongoLen > 0 /\ ai.notes_count = 0
            THEN Goto(r, "cs_delete")
            ELSE IF mongoLen = 0 /\ ai.notes_count = 0
              THEN Send(r, [Respond(200, "Databases are already clean and synchronized")
                              EXCEPT !.success = TRUE, !.flag = "already_clean"])
              ELSE Send(r, [Respond(200, "Databases appear to be synchronized")
                              EXCEPT !.success = TRUE, !.flag = "no_action_needed",
                                     !.vectorCount = ai.notes_count])
  /\ UNCHANGED <<frontend, stores, op, user, arg, tmpFile, mongoDocs, saved, dbCalls>>

\* await Note.deleteMany({ userId })
NotesCleanupSyncDeleteMany(r) ==
  /\ pc[r] = "cs_delete"
  /\ DbCall(r, "deleteMany")
  /\ \/ /\ notes' = notes \ UserNotes(user[r])
        /\ Send(r, [Respond(200, "Cleaned up orphaned file records from database")
                      EXCEPT !.success = TRUE, !.flag = "cleaned_mongodb"])
     \/ /\ notes' = notes
        /\ Send(r, Respond(500, "Cleanup failed"))
  /\ UNCHANGED <<frontend, videos, aiNotes, aiVideos, nextId, op, user, arg, tmpFile,
                 mongoDocs, aiResponse, saved, calls>>

\* variant of DuplicateKey: the index is not unique
DuplicateKeyNever(u, videoId) == FALSE

\* ---- models/YouTubeVideo: unique index { userId: 1, videoId: 1 } ----------
\* an insert of a second document with the same pair is refused (E11000)
DuplicateKey(u, videoId) ==
  \E v \in videos : v.userId = u /\ v.videoId = videoId

\* variant of ToLowerCase: the case is kept
ToLowerCaseIdentity(s) == s

\* String.prototype.toLowerCase on the language names in use
ToLowerCase(s) ==
  CASE s = "Hindi" -> "hindi"
    [] s = "English" -> "english"
    [] OTHER -> s

\* ---- POST /youtube/process ------------------------------------------------
\* const { videoUrl, language = 'english' } = req.body: the default replaces
\* an absent field only
LanguageOf(body) == IF body.language = Undefined THEN "english" ELSE body.language

\* variant of ProcessStart: a video the user has a record for is refused before
\* the AI backend is called
ProcessStartCheckFirst(r) ==
  \E u \in Users, url \in VideoUrls, lang \in Languages :
    LET body == [NoArg EXCEPT !.videoUrl = url, !.language = lang]
        language == LanguageOf(body)
        existingVideo == {v \in videos : v.userId = u /\ v.videoId = url}
    IN
    /\ Begin(r, "youtube.process", u, body)
    /\ IF Falsy(url)
         THEN Send(r, Respond(400, "Video URL is required"))
         ELSE IF language = Null
           THEN Send(r, Respond(500, "Video processing failed"))
           ELSE IF ToLowerCase(language) \notin {"english", "hindi"}
             THEN Send(r, Respond(400, "Language must be either \"english\" or \"hindi\""))
             ELSE IF existingVideo # {}
               THEN Send(r, [Respond(400, "This video has already been processed")
                               EXCEPT !.records = existingVideo])
               ELSE Goto(r, "yp_ai")
    /\ UNCHANGED <<frontend, stores, tmpFile, mongoDocs, aiResponse, saved,
                   calls, dbCalls>>

\* language.toLowerCase() of a value that is not a string throws a TypeError,
\* which the catch block answers with 500
ProcessStart(r) ==
  \E u \in Users, url \in VideoUrls, lang \in Languages :
    LET body == [NoArg EXCEPT !.videoUrl = url, !.language = lang]
        language == LanguageOf(body)
    IN
    /\ Begin(r, "youtube.process", u, body)
    /\ IF Falsy(url)
         THEN Send(r, Respond(400, "Video URL is required"))
         ELSE IF language = Null
           THEN Send(r, Respond(500, "Video processing failed"))
           ELSE IF ToLowerCase(language) \notin {"english", "hindi"}
             THEN Send(r, Respond(400, "Language must be either \"english\" or \"hindi\""))
             ELSE Goto(r, "yp_ai")
    /\ UNCHANGED <<frontend, stores, tmpFile, mongoDocs, aiResponse, saved,
                   calls, dbCalls>>

\* await axios.post(/process-youtube-video): success with video_data,
\* success=false (with or without available_languages), or the call throws
\* (with or without available_languages in the error detail)
ProcessAI(r) ==
  /\ pc[r] = "yp_ai"
  /\ AiCall(r, "process-youtube-video", ToLowerCase(LanguageOf(arg[r])))
  /\ \/ /\ aiVideos' = aiVideos \cup {[userId |-> user[r],
                                       videoId |-> arg[r].videoUrl]}
        /\ aiResponse' = [aiResponse EXCEPT ![r] =
               [NoAi EXCEPT !.ok = TRUE, !.success = TRUE,
                            !.name = arg[r].videoUrl,
                            !.chunks_count = ChunksOf(arg[r].videoUrl)]]
        /\ Goto(r, "yp_find")
     \/ \E langs \in BOOLEAN :
          /\ aiVideos' = aiVideos
          /\ aiResponse' = [aiResponse EXCEPT ![r] =
                 [NoAi EXCEPT !.ok = TRUE, !.langs = langs]]
          /\ Send(r, IF langs THEN [Respond(400, "Failed to process video")
                                      EXCEPT !.flag = "available_languages"]
                              ELSE Respond(500, "Failed to process video"))
     \/ \E langs \in BOOLEAN :
          /\ aiVideos' = aiVideos
          /\ aiResponse' = [aiResponse EXCEPT ![r] = [NoAi EXCEPT !.langs = langs]]
          /\ Send(r, IF langs THEN [Respond(400, "Transcript not available in selected language")
                                      EXCEPT !.flag = "available_languages"]
                              ELSE Respond(500, "Video processing failed"))
  /\ UNCHANGED <<frontend, notes, videos, aiNotes, nextId, op, user, arg, tmpFile,
                 mongoDocs, saved, dbCalls>>

\* variant of ProcessFindOne: the existingVideo test is left out
ProcessFindOneNoCheck(r) ==
  /\ pc[r] = "yp_find"
  /\ DbCall(r, "findOne")
  /\ \/ LET existingVideo == {v \in videos : /\ v.userId = user[r]
                                             /\ v.videoId = aiResponse[r].name} IN
        /\ mongoDocs' = [mongoDocs EXCEPT ![r] = existingVideo]
        /\ Goto(r, "yp_save")
     \/ /\ mongoDocs' = mongoDocs
        /\ Send(r, Respond(500, "Video processing failed"))
  /\ UNCHANGED <<frontend, stores, op, user, arg, tmpFile, aiResponse, saved, calls>>

\* await YouTubeVideo.findOne({ userId, videoId: videoData.video_id })
ProcessFindOne(r) ==
  /\ pc[r] = "yp_find"
  /\ DbCall(r, "findOne")
  /\ \/ LET existingVideo == {v \in videos : /\ v.userId = user[r]
                                             /\ v.videoId = aiResponse[r].name} IN
        /\ mongoDocs' = [mongoDocs EXCEPT ![r] = existingVideo]
        /\ IF existingVideo # {}
             THEN Send(r, [Respond(400, "This video has already been processed")
                             EXCEPT !.records = existingVideo])
             ELSE Goto(r, "yp_save")
     \/ /\ mongoDocs' = mongoDocs
        /\ Send(r, Respond(500, "Video processing failed"))
  /\ UNCHANGED <<frontend, stores, op, user, arg, tmpFile, aiResponse, saved, calls>>

\* new YouTubeVideo({ userId, videoId, ..., chunksCount, originalUrl })
NewVideo(r) ==
  [id |-> nextId, userId |-> user[r], videoId |-> aiResponse[r].name,
   chunksCount |-> aiResponse[r].chunks_count]

\* await youtubeVideo.save(): the unique index refuses a duplicate pair, or the
\* save fails for another reason; either rejection lands in the catch block,
\* which answers 500 with error.message
VideoSave(r, at, failure) ==
  /\ pc[r] = at
  /\ DbCall(r, "save")
  /\ \/ /\ nextId <= MaxId
        /\ ~DuplicateKey(user[r], aiResponse[r].name)
        /\ LET youtubeVideo == NewVideo(r)
           IN /\ videos' = videos \cup {youtubeVideo}
              /\ saved' = [saved EXCEPT ![r] = {youtubeVideo}]
              /\ Send(r, [Respond(200, "processed") EXCEPT !.success = TRUE,
                                                           !.records = {youtubeVideo}])
        /\ nextId' = nextId + 1
     \/ /\ DuplicateKey(user[r], aiResponse[r].name)
        /\ UNCHANGED <<videos, nextId, saved>>
        /\ Send(r, [Respond(500, failure) EXCEPT !.flag = "E11000 duplicate key error"])
     \/ /\ UNCHANGED <<videos, nextId, saved>>
        /\ Send(r, Respond(500, failure))
  /\ UNCHANGED <<frontend, notes, aiNotes, aiVideos, op, user, arg, tmpFile,
                 mongoDocs, aiResponse, calls>>

ProcessSave(r) == VideoSave(r, "yp_save", "Video processing failed")

\* ---- POST /youtube/query ----------------------------------------------------
\* the handler up to its first await, for the user u and the question q
YoutubeQueryRequest(r, u, q) ==
  /\ Begin(r, "youtube.query", u, [NoArg EXCEPT !.question = q])
  /\ IF Falsy(q)
       THEN Send(r, Respond(400, "Question is required"))
       ELSE Goto(r, "yq_find")
  /\ UNCHANGED <<stores, tmpFile, mongoDocs, aiResponse, saved, calls, dbCalls>>

\* a request of any API client
YoutubeQueryStart(r) ==
  \E u \in Users, q \in Questions :
    /\ YoutubeQueryRequest(r, u, q)
    /\ UNCHANGED frontend

\* variant of YoutubeQueryFind: the userVideos.length === 0 test is left out
YoutubeQueryFindNoCheck(r) ==
  /\ pc[r] = "yq_find"
  /\ DbCall(r, "find")
  /\ \/ /\ mongoDocs' = [mongoDocs EXCEPT ![r] = UserVideos(user[r])]
        /\ Goto(r, "yq_ask")
     \/ /\ mongoDocs' = mongoDocs
        /\ Send(r, Respond(500, "Query failed"))
  /\ UNCHANGED <<frontend, stores, op, user, arg, tmpFile, aiResponse, saved, calls>>

\* await YouTubeVideo.find({ userId })
YoutubeQueryFind(r) ==
  /\ pc[r] = "yq_find"
  /\ DbCall(r, "find")
  /\ \/ /\ mongoDocs' = [mongoDocs EXCEPT ![r] = UserVideos(user[r])]
        /\ IF UserVideos(user[r]) = {}
             THEN Send(r, Respond(400, "No YouTube videos found. Please process some videos first."))
             ELSE Goto(r, "yq_ask")
     \/ /\ mongoDocs' = mongoDocs
        /\ Send(r, Respond(500, "Query failed"))
  /\ UNCHANGED <<frontend, stores, op, user, arg, tmpFile, aiResponse, saved, calls>>

\* await axios.post(/query-youtube)
YoutubeQueryAsk(r) ==
  /\ pc[r] = "yq_ask"
  /\ AiCall(r, "query-youtube", arg[r].question)
  /\ \/ \E ok \in BOOLEAN :
          /\ aiResponse' = [aiResponse EXCEPT ![r] =
                 [NoAi EXCEPT !.ok = TRUE, !.success = ok]]
          /\ Send(r, [Respond(200, "answer") EXCEPT !.success = ok])
     \/ /\ aiResponse' = [aiResponse EXCEPT ![r] = NoAi]
        /\ Send(r, Respond(500, "Query failed"))
  /\ UNCHANGED <<frontend, stores, op, user, arg, tmpFile, mongoDocs, saved, dbCalls>>

\* ---- GET /youtube/my-videos -------------------------------------------------
MyVideosStart(r) ==
  \E u \in Users :
    /\ Begin(r, "youtube.my-videos", u, NoArg)
    /\ Goto(r, "mv_find")
    /\ UNCHANGED <<frontend, stores, tmpFile, mongoDocs, aiResponse, saved,
                   calls, dbCalls>>

\* await YouTubeVideo.find({ userId }).sort(..)
MyVideosFind(r) ==
  /\ pc[r] = "mv_find"
  /\ DbCall(r, "find")
  /\ \/ /\ mongoDocs' = [mongoDocs EXCEPT ![r] = UserVideos(user[r])]
        /\ Goto(r, "mv_info")
     \/ /\ mongoDocs' = mongoDocs
        /\ Send(r, Respond(500, "Failed to get videos"))
  /\ UNCHANGED <<frontend, stores, op, user, arg, tmpFile, aiResponse, saved, calls>>

\* variant of MyVideosInfo: a failed youtube-info call fails the request
MyVideosInfoFails(r) ==
  /\ pc[r] = "mv_info"
  /\ AiCall(r, "youtube-info", "")
  /\ \/ \E c \in VideosInfoCounts(user[r]) :
          /\ aiResponse' = [aiResponse EXCEPT ![r] =
                 [NoAi EXCEPT !.ok = TRUE, !.notes_count = c]]
          /\ Send(r, [Respond(200, "") EXCEPT !.success = TRUE,
                         !.records = mongoDocs[r], !.vectorCount = c])
     \/ /\ aiResponse' = aiResponse
        /\ Send(r, Respond(500, "Failed to get videos"))
  /\ UNCHANGED <<frontend, stores, op, user, arg, tmpFile, mongoDocs, saved, dbCalls>>

\* await axios.get(/youtube-info/:userId) inside the inner try
MyVideosInfo(r) ==
  /\ pc[r] = "mv_info"
  /\ AiCall(r, "youtube-info", "")
  /\ \/ \E c \in VideosInfoCounts(user[r]) :
          /\ aiResponse' = [aiResponse EXCEPT ![r] =
                 [NoAi EXCEPT !.ok = TRUE, !.notes_count = c]]
          /\ Send(r, [Respond(200, "") EXCEPT !.success = TRUE,
                         !.records = mongoDocs[r], !.vectorCount = c])
     \/ /\ aiResponse' = aiResponse
        /\ Send(r, [Respond(200, "") EXCEPT !.success = TRUE,
                       !.records = mongoDocs[r],
                       !.flag = "AI backend unavailable. Videos may not work with queries."])
  /\ UNCHANGED <<frontend, stores, op, user, arg, tmpFile, mongoDocs, saved, dbCalls>>

\* ---- POST /youtube/process-pasted -------------------------------------------
\* variant of TrimmedLength: the text is measured untrimmed
TrimmedLengthUntrimmed(t) == t.length

\* transcriptText.trim().length
TrimmedLength(t) == t.length - t.blank

\* the handler up to its first await, for a request of u with body t
ProcessPastedRequest(r, u, t) ==
  /\ Begin(r, "youtube.process-pasted", u, [NoArg EXCEPT !.transcript = t])
  /\ IF ~t.defined \/ t.length = 0 \/ TrimmedLength(t) < MinTranscriptLength
       THEN Send(r, Respond(400, "Transcript text is required and must be at least 50 characters"))
       ELSE Goto(r, "pp_ai")
  /\ UNCHANGED <<stores, tmpFile, mongoDocs, aiResponse, saved, calls, dbCalls>>

\* a request of any API client
ProcessPastedStart(r) ==
  \E u \in Users, t \in Transcripts :
    /\ ProcessPastedRequest(r, u, t)
    /\ UNCHANGED frontend

\* await axios.post(/process-pasted-transcript): the AI backend names the
\* video itself
ProcessPastedAI(r) ==
  /\ pc[r] = "pp_ai"
  /\ AiCall(r, "process-pasted-transcript", "")
  /\ \/ \E vid \in VideoIds :
          /\ aiVideos' = aiVideos \cup {[userId |-> user[r], videoId |-> vid]}
          /\ aiResponse' = [aiResponse EXCEPT ![r] =
                 [NoAi EXCEPT !.ok = TRUE, !.success = TRUE,
                              !.name = vid, !.chunks_count = ChunksOf(vid)]]
          /\ Goto(r, "pp_save")
     \/ /\ aiVideos' = aiVideos
        /\ aiResponse' = [aiResponse EXCEPT ![r] = [NoAi EXCEPT !.ok = TRUE]]
        /\ Send(r, Respond(500, "Failed to process transcript"))
     \/ /\ aiVideos' = aiVideos
        /\ aiResponse' = aiResponse
        /\ Send(r, Respond(500, "Processing failed"))
  /\ UNCHANGED <<frontend, notes, videos, aiNotes, nextId, op, user, arg, tmpFile,
                 mongoDocs, saved, dbCalls>>

ProcessPastedSave(r) == VideoSave(r, "pp_save", "Processing failed")

\* ---- DELETE /youtube/:videoId -----------------------------------------------
\* the handler up to its first await, for the user u and the _id id
VideoDeleteRequest(r, u, id) ==
  /\ Begin(r, "youtube.delete", u, [NoArg EXCEPT !.id = id])
  /\ Goto(r, "yd_delete")
  /\ UNCHANGED <<stores, tmpFile, mongoDocs, aiResponse, saved, calls, dbCalls>>

\* a request of any API client
VideoDeleteStart(r) ==
  \E u \in Users, id \in Ids :
    /\ VideoDeleteRequest(r, u, id)
    /\ UNCHANGED frontend

\* variant of VideoDeleteFindOneAndDelete: the record is looked up and left in
\* the collection
VideoDeleteFindOneOnly(r) ==
  /\ pc[r] = "yd_delete"
  /\ DbCall(r, "findOneAndDelete")
  /\ \/ LET video == {v \in videos : v.id = arg[r].id /\ v.userId = user[r]} IN
        /\ mongoDocs' = [mongoDocs EXCEPT ![r] = video]
        /\ videos' = videos
        /\ IF video = {}
             THEN Send(r, Respond(404, "Video not found"))
             ELSE Goto(r, "yd_ai")
     \/ /\ UNCHANGED <<mongoDocs, videos>>
        /\ Send(r, Respond(500, "Delete failed"))
  /\ UNCHANGED <<frontend, notes, aiNotes, aiVideos, nextId, op, user, arg, tmpFile,
                 aiResponse, saved, calls>>

\* await YouTubeVideo.findOneAndDelete({ _id: videoId, userId })
VideoDeleteFindOneAndDelete(r) ==
  /\ pc[r] = "yd_delete"
  /\ DbCall(r, "findOneAndDelete")
  /\ \/ LET video == {v \in videos : v.id = arg[r].id /\ v.userId = user[r]} IN
        /\ mongoDocs' = [mongoDocs EXCEPT ![r] = video]
        /\ videos' = videos \ video
        /\ IF video = {}
             THEN Send(r, Respond(404, "Video not found"))
             ELSE Goto(r, "yd_ai")
     \/ /\ UNCHANGED <<mongoDocs, videos>>
        /\ Send(r, Respond(500, "Delete failed"))
  /\ UNCHANGED <<frontend, notes, aiNotes, aiVideos, nextId, op, user, arg, tmpFile,
                 aiResponse, saved, calls>>

\* await axios.delete(/delete-youtube-video) inside the inner try
VideoDeleteAI(r) ==
  /\ pc[r] = "yd_ai"
  /\ LET video == CHOOSE v \in mongoDocs[r] : TRUE IN
     /\ AiCall(r, "delete-youtube-video", video.videoId)
     /\ \/ /\ aiVideos' = aiVideos \ {[userId |-> user[r], videoId |-> video.videoId]}
           /\ aiResponse' = [aiResponse EXCEPT ![r] = [NoAi EXCEPT !.ok = TRUE]]
        \/ /\ aiVideos' = aiVideos
           /\ aiResponse' = [aiResponse EXCEPT ![r] = NoAi]
  /\ Send(r, [Respond(200, "Video deleted successfully")
                EXCEPT !.success = TRUE, !.records = mongoDocs[r]])
  /\ UNCHANGED <<frontend, notes, videos, aiNotes, nextId, op, user, arg, tmpFile,
                 mongoDocs, saved, dbCalls>>

\* ---- frontend/src/components/YouTubeChat.js -----------------------------------
\* setMessages(prev => [...prev, { type, content }])
AppendMessage(type, content) ==
  messages' = Append(messages, [type |-> type, content |-> content])

\* String.prototype.trim on the text of the transcript field
Trim(t) == [t EXCEPT !.length = TrimmedLength(t), !.blank = 0]

\* handlePasteProcess up to its await: the form is submitted by the logged-in
\* user A with the text t in the transcript field (the submit button is
\* disabled while processing is set).  A blank text returns at once, a short
\* one appends an error message, any other is posted trimmed.
handlePasteProcess(r) ==
  \E t \in PastedTexts :
    /\ ~processing
    /\ Len(messages) < MaxMessages
    /\ IF TrimmedLength(t) = 0
         THEN UNCHANGED vars
         ELSE IF TrimmedLength(t) < MinTranscriptLength
           THEN /\ AppendMessage("error", "Transcript is too short")
                /\ UNCHANGED <<stores, op, pc, user, arg, tmpFile, mongoDocs,
                               aiResponse, saved, calls, dbCalls, resp,
                               processing, loading, processedVideos, client>>
           ELSE /\ processing' = TRUE
                /\ client' = [client EXCEPT ![r] = "handlePasteProcess"]
                /\ ProcessPastedRequest(r, "A", Trim(t))
                /\ UNCHANGED <<messages, loading, processedVideos>>

\* fetchUserVideos, called without await by the callbacks: the list is
\* replaced by the records GET /youtube/my-videos answers for the logged-in
\* user A; when the request fails the list stays as it is.
fetchUserVideos ==
  processedVideos' \in {UserVideos("A"), processedVideos}

\* handlePasteProcess after its await: axios resolves on a 2xx response and
\* rejects on any other; then the finally block clears processing.
\* (scrollToChat only moves the view.)
handlePasteProcessSettled(r) ==
  /\ pc[r] = "done"
  /\ client[r] = "handlePasteProcess"
  /\ IF resp[r].status = 200
       THEN IF resp[r].success
              THEN /\ AppendMessage("system", "Successfully processed")
                   /\ fetchUserVideos
              ELSE UNCHANGED <<messages, processedVideos>>
       ELSE /\ AppendMessage("error", "Processing failed")
            /\ processedVideos' = processedVideos
  /\ processing' = FALSE
  /\ loading' = loading
  /\ client' = [client EXCEPT ![r] = ""]
  /\ Close(r)
  /\ UNCHANGED stores

\* the texts of the question field: blanks only, or a question
ChatQuestions == {" ", "why?"}

\* String.prototype.trim on the text of the question field
TrimQuestion(q) == IF q = " " THEN "" ELSE q

\* handleSubmitQuestion up to its await: the form is submitted by the
\* logged-in user A with the text q in the question field (the form is
\* disabled while loading is set and while processedVideos is empty).  A
\* blank text returns at once; any other is appended as the user message and
\* posted as typed.
handleSubmitQuestion(r) ==
  \E q \in ChatQuestions :
    /\ ~loading
    /\ processedVideos # {}
    /\ Len(messages) < MaxMessages
    /\ IF TrimQuestion(q) = ""
         THEN UNCHANGED vars
         ELSE /\ AppendMessage("user", q)
              /\ loading' = TRUE
              /\ client' = [client EXCEPT ![r] = "handleSubmitQuestion"]
              /\ YoutubeQueryRequest(r, "A", q)
              /\ UNCHANGED <<processing, processedVideos>>

\* handleSubmitQuestion after its await: a 2xx response whose body has
\* success set appends the bot message, a 2xx response without it appends
\* nothing, any other response appends the error message with the message of
\* the response; then the finally block clears loading.
handleSubmitQuestionSettled(r) ==
  /\ pc[r] = "done"
  /\ client[r] = "handleSubmitQuestion"
  /\ IF resp[r].status = 200
       THEN IF resp[r].success
              THEN AppendMessage("bot", resp[r].message)
              ELSE messages' = messages
       ELSE AppendMessage("error", resp[r].message)
  /\ loading' = FALSE
  /\ client' = [client EXCEPT ![r] = ""]
  /\ Close(r)
  /\ UNCHANGED <<stores, processing, processedVideos>>

\* deleteVideo up to its await: the delete button of a video of the list is
\* clicked and the confirm dialog accepted.
deleteVideo(r) ==
  \E video \in processedVideos :
    /\ Len(messages) < MaxMessages
    /\ client' = [client EXCEPT ![r] = "deleteVideo"]
    /\ VideoDeleteRequest(r, "A", video.id)
    /\ UNCHANGED <<messages, processing, loading, processedVideos>>

\* deleteVideo after its await: a 2xx response appends the system message
\* and refreshes the list, any other appends the error message.
deleteVideoSettled(r) ==
  /\ pc[r] = "done"
  /\ client[r] = "deleteVideo"
  /\ IF resp[r].status = 200
       THEN /\ AppendMessage("system", "Deleted")
            /\ fetchUserVideos
       ELSE /\ AppendMessage("error", "Delete failed")
            /\ processedVideos' = processedVideos
  /\ client' = [client EXCEPT ![r] = ""]
  /\ Close(r)
  /\ UNCHANGED <<stores, processing, loading>>

\* ---- specifications ---------------------------------------------------------
\* no other request is in flight
Alone(r) == \A q \in Reqs \ {r} : op[q] = "idle"
\* the request is one of user A
OfA(r) == user'[r] = "A"

\* Every route of both routers, requests of one user, one after the other.
Next ==
  \E r \in Reqs :
    \/ Alone(r) /\ NotesUploadStart(r) /\ OfA(r)
    \/ NotesUploadAI(r)
    \/ NotesUploadSave(r)
    \/ Alone(r) /\ NotesQueryStart(r) /\ OfA(r)
    \/ NotesQueryFind(r)
    \/ NotesQueryInfo(r)
    \/ NotesQueryAsk(r)
    \/ Alone(r) /\ NotesMyNotesStart(r) /\ OfA(r)
    \/ NotesMyNotesFind(r)
    \/ NotesMyNotesInfo(r)
    \/ Alone(r) /\ NotesDeleteStart(r) /\ OfA(r)
    \/ NotesDeleteFindOne(r)
    \/ NotesDeleteFindByIdAndDelete(r)
    \/ NotesDeleteAI(r)
    \/ Alone(r) /\ NotesCleanupSyncStart(r) /\ OfA(r)
    \/ NotesCleanupSyncFind(r)
    \/ NotesCleanupSyncInfo(r)
    \/ NotesCleanupSyncDeleteMany(r)
    \/ Alone(r) /\ ProcessStart(r) /\ OfA(r)
    \/ ProcessAI(r)
    \/ ProcessFindOne(r)
    \/ ProcessSave(r)
    \/ Alone(r) /\ YoutubeQueryStart(r) /\ OfA(r)
    \/ YoutubeQueryFind(r)
    \/ YoutubeQueryAsk(r)
    \/ Alone(r) /\ MyVideosStart(r) /\ OfA(r)
    \/ MyVideosFind(r)
    \/ MyVideosInfo(r)
    \/ Alone(r) /\ ProcessPastedStart(r) /\ OfA(r)
    \/ ProcessPastedAI(r)
    \/ ProcessPastedSave(r)
    \/ Alone(r) /\ VideoDeleteStart(r) /\ OfA(r)
    \/ VideoDeleteFindOneAndDelete(r)
    \/ VideoDeleteAI(r)
    \/ Finish(r)

Spec == Init /\ [][Next]_vars

\* Every route of both routers, requests of two users, one after the other.
NextUsers ==
  \E r \in Reqs :
    \/ Alone(r) /\ NotesUploadStart(r)
    \/ NotesUploadAI(r)
    \/ NotesUploadSave(r)
    \/ Alone(r) /\ NotesQueryStart(r)
    \/ NotesQueryFind(r)
    \/ NotesQueryInfo(r)
    \/ NotesQueryAsk(r)
    \/ Alone(r) /\ NotesMyNotesStart(r)
    \/ NotesMyNotesFind(r)
    \/ NotesMyNotesInfo(r)
    \/ Alone(r) /\ NotesDeleteStart(r)
    \/ NotesDeleteFindOne(r)
    \/ NotesDeleteFindByIdAndDelete(r)
    \/ NotesDeleteAI(r)
    \/ Alone(r) /\ NotesCleanupSyncStart(r)
    \/ NotesCleanupSyncFind(r)
    \/ NotesCleanupSyncInfo(r)
    \/ NotesCleanupSyncDeleteMany(r)
    \/ Alone(r) /\ ProcessStart(r)
    \/ ProcessAI(r)
    \/ ProcessFindOne(r)
    \/ ProcessSave(r)
    \/ Alone(r) /\ YoutubeQueryStart(r)
    \/ YoutubeQueryFind(r)
    \/ YoutubeQueryAsk(r)
    \/ Alone(r) /\ MyVideosStart(r)
    \/ MyVideosFind(r)
    \/ MyVideosInfo(r)
    \/ Alone(r) /\ ProcessPastedStart(r)
    \/ ProcessPastedAI(r)
    \/ ProcessPastedSave(r)
    \/ Alone(r) /\ VideoDeleteStart(r)
    \/ VideoDeleteFindOneAndDelete(r)
    \/ VideoDeleteAI(r)
    \/ Finish(r)

SpecUsers == Init /\ [][NextUsers]_vars

\* The YouTube routes that write, requests of one user in flight together:
\* their awaits interleave in every order.
NextYoutube ==
  \E r \in Reqs :
    \/ ProcessStart(r) /\ OfA(r)
    \/ ProcessAI(r)
    \/ ProcessFindOne(r)
    \/ ProcessSave(r)
    \/ ProcessPastedStart(r) /\ OfA(r)
    \/ ProcessPastedAI(r)
    \/ ProcessPastedSave(r)
    \/ VideoDeleteStart(r) /\ OfA(r)
    \/ VideoDeleteFindOneAndDelete(r)
    \/ VideoDeleteAI(r)
    \/ Finish(r)

SpecYoutube == Init /\ [][NextYoutube]_vars

\* Processing, querying and deleting videos, requests of one user in flight
\* together.
NextVideoQuery ==
  \E r \in Reqs :
    \/ ProcessStart(r) /\ OfA(r)
    \/ ProcessAI(r)
    \/ ProcessFindOne(r)
    \/ ProcessSave(r)
    \/ YoutubeQueryStart(r) /\ OfA(r)
    \/ YoutubeQueryFind(r)
    \/ YoutubeQueryAsk(r)
    \/ VideoDeleteStart(r) /\ OfA(r)
    \/ VideoDeleteFindOneAndDelete(r)
    \/ VideoDeleteAI(r)
    \/ Finish(r)

SpecVideoQuery == Init /\ [][NextVideoQuery]_vars

\* The transcript form of the YouTube view and the route it posts to, which
\* other API clients call as well; requests one after the other.
NextPaste ==
  \E r \in Reqs :
    \/ Alone(r) /\ handlePasteProcess(r)
    \/ handlePasteProcessSettled(r)
    \/ Alone(r) /\ ProcessPastedStart(r) /\ OfA(r)
    \/ ProcessPastedAI(r)
    \/ ProcessPastedSave(r)
    \/ Finish(r)

SpecPaste == Init /\ [][NextPaste]_vars

\* The YouTube view of user A: the paste, question and delete callbacks, each
\* awaiting its request, with up to two requests in flight.
NextChat ==
  \E r \in Reqs :
    \/ handlePasteProcess(r)
    \/ handlePasteProcessSettled(r)
    \/ ProcessPastedAI(r)
    \/ ProcessPastedSave(r)
    \/ handleSubmitQuestion(r)
    \/ handleSubmitQuestionSettled(r)
    \/ YoutubeQueryFind(r)
    \/ YoutubeQueryAsk(r)
    \/ deleteVideo(r)
    \/ deleteVideoSettled(r)
    \/ VideoDeleteFindOneAndDelete(r)
    \/ VideoDeleteAI(r)

SpecChat == Init /\ [][NextChat]_vars

\* The notes routes that write, requests of one user in flight together.
NextNotes ==
  \E r \in Reqs :
    \/ NotesUploadStart(r) /\ OfA(r)
    \/ NotesUploadAI(r)
    \/ NotesUploadSave(r)
    \/ NotesDeleteStart(r) /\ OfA(r)
    \/ NotesDeleteFindOne(r)
    \/ NotesDeleteFindByIdAndDelete(r)
    \/ NotesDeleteAI(r)
    \/ NotesCleanupSyncStart(r) /\ OfA(r)
    \/ NotesCleanupSyncFind(r)
    \/ NotesCleanupSyncInfo(r)
    \/ NotesCleanupSyncDeleteMany(r)
    \/ Finish(r)

SpecNotes == Init /\ [][NextNotes]_vars

\* ---- properties ---------------------------------------------------------------
Done(r) == pc[r] = "done"
Acts(r) == pc'[r] # pc[r]                 \* this step is a step of request r
Endpoints(r) == {calls[r][i].endpoint : i \in DOMAIN calls[r]}
AllIdle == \A r \in Reqs : op[r] = "idle"

\* C1: the YouTubeVideo collection never holds two records with the same
\* (userId, videoId), whatever the interleaving of process, process-pasted and
\* delete requests; a findOne or save that meets an existing pair ends the
\* request with an error response and adds no record.
C1_OneRecordPerPair ==
  \A v \in videos, w \in videos :
    (v.userId = w.userId /\ v.videoId = w.videoId) => v = w

C1_SecondIsRefused ==
  \A r \in Reqs :
    (/\ Acts(r)
     /\ pc[r] \in {"yp_find", "yp_save", "pp_save"}
     /\ DuplicateKey(user[r], aiResponse[r].name))
    => /\ videos' = videos
       /\ pc'[r] = "done"
       /\ resp'[r].status \in {400, 500}

C1_UniqueUserVideo == [](C1_OneRecordPerPair) /\ [][C1_SecondIsRefused]_vars

\* a process request whose findOne saw no record, whose save was refused, and
\* the record of the same pair that another request saved in between
C1_Witness ==
  \E r \in Reqs :
    /\ Done(r) /\ op[r] = "youtube.process"
    /\ dbCalls[r] = <<"findOne", "save">>
    /\ mongoDocs[r] = {} /\ saved[r] = {}
    /\ resp[r].status = 500
    /\ resp[r].flag = "E11000 duplicate key error"

\* C2: an upload whose note.save failed after the AI backend ingested the file
\* has answered 500 and the AI backend still holds the file's vector data:
\* nothing undoes the ingest.
C2_IngestNotRolledBack ==
  \A r \in Reqs :
    (Done(r) /\ op[r] = "notes.upload" /\ aiResponse[r].success /\ saved[r] = {})
    => /\ [userId |-> user[r], filename |-> aiResponse[r].name] \in aiNotes
       /\ resp[r].status = 500

\* every request has completed and the AI backend holds vector data of a note
\* that has no record in the document store
C2_Witness ==
  /\ AllIdle
  /\ \E x \in aiNotes :
       ~ \E n \in notes : n.userId = x.userId /\ n.filename = x.filename

\* C3: a DELETE whose record was found and removed and whose AI-backend delete
\* call failed answers 200 with success=true, and the record is gone from the
\* document store.
C3_DeleteSurvivesAiFailure ==
  \A r \in Reqs :
    (/\ Done(r) /\ op[r] \in {"notes.delete", "youtube.delete"}
     /\ calls[r] # <<>> /\ ~aiResponse[r].ok)
    => /\ resp[r].status = 200 /\ resp[r].success
       /\ mongoDocs[r] # {}
       /\ \A d \in notes \cup videos : d.id # arg[r].id

C3_Witness ==
  \E r \in Reqs :
    /\ Done(r) /\ op[r] = "notes.delete"
    /\ Endpoints(r) = {"delete-notes"} /\ ~aiResponse[r].ok
    /\ resp[r].status = 200
    /\ [userId |-> user[r], filename |-> "a.pdf"] \in aiNotes

\* C4: when the notes-info call answered, my-notes reports synchronized=true
\* exactly when the number of the user's Note records equals notes_count, and
\* the mismatch warning exactly when they differ.
C4_SyncIffCountsEqual ==
  \A r \in Reqs :
    (Done(r) /\ op[r] = "notes.my-notes" /\ aiResponse[r].ok)
    => LET equal == Cardinality(UserNotes(user[r])) = aiResponse[r].notes_count IN
       /\ resp[r].status = 200
       /\ resp[r].synchronized <=> equal
       /\ resp[r].message = "Warning: Database mismatch" <=> ~equal
       /\ resp[r].message = "Databases are synchronized" <=> equal

\* both stores hold something for the user, in different numbers
C4_Witness ==
  \E r \in Reqs :
    /\ Done(r) /\ op[r] = "notes.my-notes" /\ aiResponse[r].ok
    /\ Cardinality(UserNotes(user[r])) = 1 /\ aiResponse[r].notes_count = 2
    /\ ~resp[r].synchronized

\* C5: no step of my-notes, my-videos or either query route changes the document
\* store, and the only AI-backend calls these routes issue are info and query
\* calls.
ReadRoutes == {"notes.my-notes", "youtube.my-videos", "notes.query", "youtube.query"}
ReadEndpoints == {"notes-info", "youtube-info", "query", "query-youtube"}

C5_ReadStep ==
  \A r \in Reqs :
    (Acts(r) /\ (op[r] \in ReadRoutes \/ op'[r] \in ReadRoutes))
    => /\ notes' = notes /\ videos' = videos
       /\ Endpoints(r)' \subseteq ReadEndpoints

C5_ReadRoutesChangeNothing == [][C5_ReadStep]_vars

\* my-notes saw records without any vector data and the records are still there
C5_Witness ==
  \E r \in Reqs :
    /\ Done(r) /\ op[r] = "notes.my-notes" /\ aiResponse[r].ok
    /\ aiResponse[r].notes_count = 0 /\ ~resp[r].synchronized
    /\ UserNotes(user[r]) # {}

\* C6: a step of a request authenticated as u adds or removes only records
\* whose userId is u, answers only with such records, and every AI-backend
\* call of the request carries u as user_id.
C6_OwnStep ==
  \A r \in Reqs :
    Acts(r) =>
      LET u == IF op[r] = "idle" THEN user'[r] ELSE user[r]
          touched == (notes \ notes') \cup (notes' \ notes)
                       \cup (videos \ videos') \cup (videos' \ videos)
      IN /\ \A d \in touched : d.userId = u
         /\ \A d \in resp'[r].records : d.userId = u
         /\ \A i \in DOMAIN calls'[r] : calls'[r][i].user_id = u

C6_OnlyOwnRecords == [][C6_OwnStep]_vars

\* a DELETE with the id of another user's note answered 404 and the note is
\* still there
C6_Witness ==
  \E r \in Reqs :
    /\ Done(r) /\ op[r] = "notes.delete" /\ resp[r].status = 404
    /\ \E n \in notes : n.id = arg[r].id /\ n.userId # user[r]

\* C7: a record enters the document store only in a step of a request whose
\* AI processing call answered success=true for that content, and with the
\* chunks_count of that answer as its chunksCount.
IngestEndpoints == {"upload-document", "process-youtube-video",
                    "process-pasted-transcript"}

C7_CreateStep ==
  \A d \in (notes' \ notes) \cup (videos' \ videos) :
    \E r \in Reqs :
      /\ Acts(r) /\ d.userId = user[r]
      /\ Endpoints(r) \cap IngestEndpoints # {}
      /\ aiResponse[r].ok /\ aiResponse[r].success
      /\ d.chunksCount = aiResponse[r].chunks_count
      /\ d.chunksCount = ChunksOf(aiResponse[r].name)

C7_RecordsFollowAiSuccess == [][C7_CreateStep]_vars

C7_Witness ==
  \E r \in Reqs :
    /\ Done(r) /\ op[r] = "notes.upload" /\ resp[r].status = 200
    /\ saved[r] # {} /\ saved[r] \subseteq notes
    /\ \A d \in saved[r] : d.chunksCount = 2

\* C8: within one request no AI-backend endpoint is called twice; in
\* particular a failed call is not repeated.
C8_NoRetry ==
  \A r \in Reqs :
    \A i \in DOMAIN calls[r], j \in DOMAIN calls[r] :
      i # j => calls[r][i].endpoint # calls[r][j].endpoint

\* notes-info answered, the query call failed, and the request ended with 500
\* after exactly these two calls
C8_Witness ==
  \E r \in Reqs :
    /\ Done(r) /\ op[r] = "notes.query" /\ resp[r].status = 500
    /\ Len(calls[r]) = 2 /\ calls[r][2].endpoint = "query"
    /\ ~aiResponse[r].ok

\* C9: a query request without a question, or with an empty one, is answered
\* 400 'Question is required' before any document-store or AI-backend call.
C9_QuestionRequired ==
  \A r \in Reqs :
    (op[r] \in {"notes.query", "youtube.query"}
       /\ arg[r].question \in {Undefined, ""})
    => /\ Done(r)
       /\ resp[r].status = 400 /\ resp[r].message = "Question is required"
       /\ calls[r] = <<>> /\ dbCalls[r] = <<>>

C9_Witness ==
  \E r \in Reqs :
    /\ Done(r) /\ op[r] = "youtube.query" /\ arg[r].question = ""
    /\ resp[r].status = 400 /\ UserVideos(user[r]) # {}

\* C10: an upload whose file is neither application/pdf nor text/plain, or
\* that has no file, is never forwarded to the AI backend and saves no Note.
C10_OnlyPdfAndTxt ==
  \A r \in Reqs :
    (/\ op[r] = "notes.upload"
     /\ arg[r].mimetype \notin {"application/pdf", "text/plain"})
    => /\ calls[r] = <<>>
       /\ saved[r] = {} /\ dbCalls[r] = <<>>
       /\ Done(r) /\ resp[r].status \in {400, 500}

C10_Witness ==
  \E r \in Reqs :
    /\ Done(r) /\ op[r] = "notes.upload" /\ arg[r].mimetype = "image/png"
    /\ resp[r].status = 500 /\ ~tmpFile[r]

\* C11: a cleanup-sync step removes Note records only when the document store
\* has records of the user and the AI backend holds no vector data for that
\* user, whatever the notes-info call answered and also when it failed.
C11_DeleteStep ==
  \A r \in Reqs :
    (Acts(r) /\ op[r] = "notes.cleanup-sync" /\ notes' # notes)
    => /\ UserNotes(user[r]) # {}
       /\ AiUserNotes(user[r]) = {}

C11_DeletesOnlyOrphans == [][C11_DeleteStep]_vars

\* C12: cleanup-sync answers no_action_needed only when the number of records
\* it found and the notes_count it used satisfy the synchronization check of
\* my-notes, and it answers cleaned_mongodb whenever they do not.
C12_NoActionIffSync ==
  \A r \in Reqs :
    (Done(r) /\ op[r] = "notes.cleanup-sync" /\ resp[r].status = 200)
    => LET mongoLen == Cardinality(mongoDocs[r])
           notes_count == aiResponse[r].notes_count
       IN /\ resp[r].flag = "no_action_needed" => IsSync(mongoLen, notes_count)
          /\ ~IsSync(mongoLen, notes_count) => resp[r].flag = "cleaned_mongodb"

\* C13: while an upload of the same user is in flight, a cleanup-sync whose
\* notes-info call answered never removes a Note record whose vector data is
\* in the AI backend at the moment of the deleteMany.
C13_DeleteStep ==
  \A r \in Reqs :
    (/\ Acts(r) /\ op[r] = "notes.cleanup-sync" /\ aiResponse[r].ok
     /\ \E q \in Reqs \ {r} : op[q] = "notes.upload" /\ user[q] = user[r])
    => \A d \in notes \ notes' :
         [userId |-> d.userId, filename |-> d.filename] \notin aiNotes

C13_CleanupNeverDeletesLiveNote == [][C13_DeleteStep]_vars

\* C14: a notes query is forwarded to /query only when Note.find returned
\* records and notes-info answered a notes_count other than 0.  Without
\* records the request ends with 400 and no AI-backend call; with notes_count
\* 0 it ends with 400, needsReupload and the number of records as
\* mongoNotesCount; with a failed notes-info call it ends with 500 and the
\* query is not sent.
C14_Gate ==
  \A r \in Reqs :
    op[r] = "notes.query" =>
      /\ "query" \in Endpoints(r) =>
            /\ mongoDocs[r] # {}
            /\ Len(calls[r]) = 2 /\ calls[r][1].endpoint = "notes-info"
      /\ (Done(r) /\ dbCalls[r] # <<>> /\ UserNotes(user[r]) = {}) =>
            /\ calls[r] = <<>>
            /\ \/ /\ resp[r].status = 400
                  /\ resp[r].message = "No notes found. Please upload some notes first."
               \/ /\ resp[r].status = 500          \* Note.find itself threw
                  /\ resp[r].message = "Query failed"
      /\ (Done(r) /\ Len(calls[r]) = 1 /\ aiResponse[r].ok) =>
            /\ aiResponse[r].notes_count = 0
            /\ resp[r].status = 400 /\ resp[r].flag = "needsReupload"
            /\ resp[r].vectorCount = Cardinality(UserNotes(user[r]))
      /\ (Done(r) /\ Len(calls[r]) = 1 /\ ~aiResponse[r].ok) =>
            /\ resp[r].status = 500
            /\ calls[r][1].endpoint = "notes-info"

C14_ForwardStep ==
  \A r \in Reqs :
    (op[r] = "notes.query" /\ "query" \in Endpoints(r)' \ Endpoints(r))
    => /\ UserNotes(user[r]) # {}
       /\ aiResponse[r].ok /\ aiResponse[r].notes_count # 0
       /\ calls'[r][Len(calls'[r])].key = arg[r].question

C14_NotesQueryGate == [](C14_Gate) /\ [][C14_ForwardStep]_vars

\* a query of a user whose record has no vector data: 400 with needsReupload
C14_Witness ==
  \E r \in Reqs :
    /\ Done(r) /\ op[r] = "notes.query"
    /\ resp[r].status = 400 /\ resp[r].flag = "needsReupload"
    /\ resp[r].vectorCount = 1 /\ Len(calls[r]) = 1

\* C15: a YouTube query is forwarded to the AI backend only when its find
\* returned a YouTubeVideo record of the user; a find that runs while the user
\* has no record ends the request without an AI-backend call, with 400 'No
\* YouTube videos found' when the find answered.  This holds anew after the
\* user's last record is deleted, until a record is saved again.
C15_FindStep ==
  \A r \in Reqs :
    (op[r] = "youtube.query" /\ Len(dbCalls'[r]) > Len(dbCalls[r]))
    => IF UserVideos(user[r]) = {}
         THEN /\ Done(r)' /\ calls'[r] = <<>>
              /\ \/ /\ resp'[r].status = 400
                    /\ resp'[r].message =
                         "No YouTube videos found. Please process some videos first."
                 \/ /\ resp'[r].status = 500      \* YouTubeVideo.find itself threw
                    /\ resp'[r].message = "Query failed"
         ELSE \/ mongoDocs'[r] = UserVideos(user[r]) /\ ~Done(r)'
              \/ mongoDocs'[r] = {} /\ Done(r)' /\ resp'[r].status = 500

C15_ForwardStep ==
  \A r \in Reqs :
    (op[r] = "youtube.query" /\ calls'[r] # calls[r] /\ calls'[r] # <<>>)
    => /\ mongoDocs[r] # {}
       /\ dbCalls[r] = <<"find">>
       /\ calls'[r] = <<[endpoint |-> "query-youtube", user_id |-> user[r],
                         key |-> arg[r].question]>>

C15_YoutubeQueryGate == [][C15_FindStep /\ C15_ForwardStep]_vars

\* a delete that removed the user's only record is still in the first slot, and
\* the query that started after it has been answered 400 without an AI call
C15_Witness ==
  /\ op[1] = "youtube.delete" /\ Done(1) /\ resp[1].status = 200
  /\ op[2] = "youtube.query" /\ Done(2) /\ resp[2].status = 400
  /\ dbCalls[2] = <<"find">> /\ calls[2] = <<>>
  /\ videos = {}

\* C16: an upload that received a file keeps the temporary file while the
\* handler runs and has removed it when the response is sent, on each of its
\* paths; no unlink meets a missing file, so a saved note is always answered
\* 200 and a success=false answer of the AI backend 'Failed to process
\* document'.
C16_Cleaned ==
  \A r \in Reqs :
    (op[r] = "notes.upload" /\ arg[r].mimetype \in {"application/pdf", "text/plain"})
    => /\ tmpFile[r] <=> ~Done(r)
       /\ Done(r) =>
            /\ saved[r] # {} => resp[r].status = 200
            /\ (aiResponse[r].ok /\ ~aiResponse[r].success)
                  => resp[r].message = "Failed to process document"
            /\ ~aiResponse[r].ok => resp[r].message = "Upload failed"
            /\ (aiResponse[r].success /\ saved[r] = {})
                  => resp[r].message = "Upload failed"

C16_UnlinkStep ==
  \A r \in Reqs : (tmpFile[r] /\ ~tmpFile'[r]) => (op[r] = "notes.upload" /\ Done(r)')

C16_TempFileRemoved == [](C16_Cleaned) /\ [][C16_UnlinkStep]_vars

\* note.save threw after the AI backend had ingested the file: the catch block
\* removed the file
C16_Witness ==
  \E r \in Reqs :
    /\ Done(r) /\ op[r] = "notes.upload" /\ arg[r].mimetype = "text/plain"
    /\ aiResponse[r].success /\ dbCalls[r] = <<"save">> /\ saved[r] = {}
    /\ resp[r].message = "Upload failed" /\ ~tmpFile[r]

\* C17: a process request without videoUrl, or with a language string that is
\* neither 'english' nor 'hindi' in any spelling of case, is answered 400
\* before any AI-backend or document-store call; a request that passes sends
\* the lower-cased language to the AI backend, 'english' when the field is
\* absent.  (A language that is not a string is answered 500, also before any
\* call.)
C17_Validated ==
  \A r \in Reqs :
    op[r] = "youtube.process" =>
      LET url == arg[r].videoUrl
          language == arg[r].language
      IN
      /\ url \in {Undefined, ""} =>
            /\ Done(r) /\ resp[r].status = 400
            /\ resp[r].message = "Video URL is required"
            /\ calls[r] = <<>> /\ dbCalls[r] = <<>>
      /\ (url \notin {Undefined, ""} /\ language = "french") =>
            /\ Done(r) /\ resp[r].status = 400
            /\ resp[r].message = "Language must be either \"english\" or \"hindi\""
            /\ calls[r] = <<>> /\ dbCalls[r] = <<>>
      /\ (url \notin {Undefined, ""} /\ language = Null) =>
            /\ Done(r) /\ resp[r].status = 500
            /\ calls[r] = <<>> /\ dbCalls[r] = <<>>
      /\ (url \notin {Undefined, ""} /\ language \in {Undefined, "Hindi"}) =>
            /\ pc[r] # "yp_ai" => Len(calls[r]) = 1
            /\ calls[r] # <<>> =>
                  /\ calls[r][1].endpoint = "process-youtube-video"
                  /\ calls[r][1].key = IF language = "Hindi" THEN "hindi"
                                                              ELSE "english"

C17_ValidationStep ==
  \A r \in Reqs :
    (op[r] = "idle" /\ op'[r] = "youtube.process" /\ Done(r)')
    => UNCHANGED <<stores, calls, dbCalls>>

C18_FindOneStep ==
  \A r \in Reqs :
    (/\ op[r] = "youtube.process"
     /\ dbCalls[r] = <<>> /\ dbCalls'[r] = <<"findOne">>
     /\ \E v \in videos : v.userId = user[r] /\ v.videoId = aiResponse[r].name)
    => /\ videos' = videos /\ nextId' = nextId
       /\ Done(r)' /\ saved'[r] = {}
       /\ \/ /\ resp'[r].status = 400
             /\ resp'[r].message = "This video has already been processed"
             /\ resp'[r].records =
                  {v \in videos : v.userId = user[r] /\ v.videoId = aiResponse[r].name}
          \/ /\ resp'[r].status = 500 /\ mongoDocs'[r] = {}

C18_Refused ==
  \A r \in Reqs :
    (Done(r) /\ resp[r].message = "This video has already been processed")
    => /\ op[r] = "youtube.process" /\ resp[r].status = 400
       /\ dbCalls[r] = <<"findOne">> /\ saved[r] = {}
       /\ Cardinality(resp[r].records) = 1
       /\ resp[r].records \subseteq videos
       /\ \A v \in resp[r].records :
            v.userId = user[r] /\ v.videoId = arg[r].videoUrl

C18_SameVideoTwice == [](C18_Refused) /\ [][C18_FindOneStep]_vars

\* the second request for v1: refused with the record of the first
C18_Witness ==
  \E r \in Reqs :
    /\ Done(r) /\ op[r] = "youtube.process" /\ arg[r].videoUrl = "v1"
    /\ resp[r].status = 400
    /\ resp[r].records = {[id |-> 1, userId |-> user[r], videoId |-> "v1",
                            chunksCount |-> 1]}
    /\ videos = resp[r].records

\* C19: a process request that passes validation issues exactly one AI
\* processing call, also when the user already has a record of the video, and
\* its first document-store call is the findOne, issued after that call
\* answered success.
C19_OneCall ==
  \A r \in Reqs :
    (/\ op[r] = "youtube.process"
     /\ arg[r].videoUrl \in {"v1", "v2"} /\ arg[r].language \in {Undefined, "Hindi"})
    => /\ Len(calls[r]) = IF pc[r] = "yp_ai" THEN 0 ELSE 1
       /\ \A i \in DOMAIN calls[r] :
            /\ calls[r][i].endpoint = "process-youtube-video"
            /\ calls[r][i].user_id = user[r]
       /\ dbCalls[r] # <<>> =>
            /\ dbCalls[r][1] = "findOne"
            /\ aiResponse[r].ok /\ aiResponse[r].success
            /\ aiResponse[r].name = arg[r].videoUrl

C19_CheckStep ==
  \A r \in Reqs :
    (op[r] = "youtube.process" /\ Len(dbCalls'[r]) > Len(dbCalls[r]))
    => /\ Len(calls[r]) = 1 /\ calls'[r] = calls[r]
       /\ aiResponse[r].success

C19_CheckAfterAiCall == [](C19_OneCall) /\ [][C19_CheckStep]_vars

\* the video was processed by the AI backend a second time before the request
\* was refused as a duplicate
C19_Witness ==
  \E r \in Reqs :
    /\ Done(r) /\ op[r] = "youtube.process"
    /\ resp[r].message = "This video has already been processed"
    /\ Len(calls[r]) = 1 /\ calls[r][1].key = "english"
    /\ aiResponse[r].success /\ aiResponse[r].chunks_count = 3

\* C20: a process-pasted request whose transcriptText is missing or has fewer
\* than 50 characters after trimming is answered 400 before any AI-backend or
\* document-store call and creates no record; handlePasteProcess posts only
\* texts of at least 50 characters after trimming, so none of its requests is
\* refused for the length, and below the threshold it sends no request.
C20_BackendThreshold ==
  \A r \in Reqs :
    op[r] = "youtube.process-pasted" =>
      LET t == arg[r].transcript IN
      IF ~t.defined \/ t.length - t.blank < 50
        THEN /\ Done(r) /\ resp[r].status = 400
             /\ resp[r].message =
                  "Transcript text is required and must be at least 50 characters"
             /\ calls[r] = <<>> /\ dbCalls[r] = <<>> /\ saved[r] = {}
        ELSE resp[r].status # 400

C20_FrontendThreshold ==
  \A r \in Reqs :
    client[r] = "handlePasteProcess" =>
      /\ op[r] = "youtube.process-pasted"
      /\ arg[r].transcript.defined
      /\ arg[r].transcript.length - arg[r].transcript.blank >= 50
      /\ resp[r].status # 400

C20_TooShortStep ==
  (/\ Len(messages') = Len(messages) + 1
   /\ messages'[Len(messages')].content = "Transcript is too short")
  => UNCHANGED <<stores, op, pc, calls, dbCalls, client, processing>>

C20_PastedThreshold ==
  [](C20_BackendThreshold /\ C20_FrontendThreshold) /\ [][C20_TooShortStep]_vars

\* the form refused a text of 49 characters without a request, and the route
\* refused the same text sent by another client
C20_Witness ==
  \E r \in Reqs :
    /\ Done(r) /\ op[r] = "youtube.process-pasted" /\ client[r] = ""
    /\ arg[r].transcript = [defined |-> TRUE, length |-> 60, blank |-> 11]
    /\ resp[r].status = 400 /\ calls[r] = <<>>
    /\ messages = <<[type |-> "error", content |-> "Transcript is too short"]>>
    /\ videos = {} /\ aiVideos = {}

\* C21: of the DELETE requests of one user for the same video record that are
\* in flight together, at most one gets the record, and it is the only one
\* that calls the AI backend and answers 200.  A findOneAndDelete that runs
\* while the record is there removes it and lets the request go on to the AI
\* call and to 200; one that runs when it is gone answers 404 with no AI call
\* (one that throws answers 500, the record untouched).
C21_Won(r) ==
  /\ op[r] = "youtube.delete"
  /\ pc[r] = "yd_ai" \/ calls[r] # <<>> \/ resp[r].status = 200

C21_OneWinner ==
  \A r \in Reqs :
    op[r] = "youtube.delete" =>
      /\ C21_Won(r) =>
            /\ mongoDocs[r] # {}
            /\ \A v \in videos : v.id # arg[r].id
            /\ \A q \in Reqs \ {r} :
                 (user[q] = user[r] /\ arg[q].id = arg[r].id) => ~C21_Won(q)
      /\ Done(r) =>
            /\ resp[r].status \in {200, 404, 500}
            /\ resp[r].status = 200 <=>
                  /\ Len(calls[r]) = 1
                  /\ calls[r][1].endpoint = "delete-youtube-video"
            /\ resp[r].status # 200 => calls[r] = <<>>

C21_DeleteStep ==
  \A r \in Reqs :
    (op[r] = "youtube.delete" /\ Len(dbCalls'[r]) > Len(dbCalls[r]))
    => LET video == {v \in videos : v.id = arg[r].id /\ v.userId = user[r]} IN
       IF video # {}
         THEN \/ videos' = videos \ video /\ pc'[r] = "yd_ai"
              \/ videos' = videos /\ Done(r)' /\ resp'[r].status = 500
         ELSE /\ videos' = videos /\ Done(r)'
              /\ resp'[r].status \in {404, 500}

C21_ExactlyOneDelete == [](C21_OneWinner) /\ [][C21_DeleteStep]_vars

\* two requests for the same record in flight together: one has removed the
\* record and awaits the AI backend, the other has been answered 404
C21_Witness ==
  \E r \in Reqs, q \in Reqs :
    /\ op[r] = "youtube.delete" /\ op[q] = "youtube.delete"
    /\ arg[r].id = arg[q].id /\ user[r] = user[q]
    /\ pc[r] = "yd_ai" /\ mongoDocs[r] # {}
    /\ Done(q) /\ resp[q].status = 404 /\ calls[q] = <<>>

\* C22: of the DELETE /notes/:noteId requests in flight for one note of one
\* user, at most one is answered 200 'Note deleted successfully' and at most
\* one has issued the delete-notes call to the AI backend.
C22_AtMostOneDelete ==
  \A r \in Reqs : \A q \in Reqs \ {r} :
    (/\ op[r] = "notes.delete" /\ op[q] = "notes.delete"
     /\ user[r] = user[q] /\ arg[r].id = arg[q].id)
    => /\ ~(resp[r].status = 200 /\ resp[q].status = 200)
       /\ ~(calls[r] # <<>> /\ calls[q] # <<>>)

\* C23: a listing request whose info call to the AI backend failed is still
\* answered 200 with success and all the records of the user: GET
\* /notes/my-notes with synchronized = false, a notes_count of 0 and the
\* warning 'Cannot connect to AI backend'; GET /youtube/my-videos with a
\* videos_count of 0 and the warning 'AI backend unavailable'.  A listing
\* request is answered 500 only when its find on the document store threw,
\* before any call to the AI backend.
C23_InfoFailed(r) ==
  /\ Done(r)
  /\ op[r] \in {"notes.my-notes", "youtube.my-videos"}
  /\ calls[r] # <<>>
  /\ ~aiResponse[r].ok

C23_ListingSurvivesAiFailure ==
  \A r \in Reqs :
    /\ C23_InfoFailed(r) =>
         /\ resp[r].status = 200
         /\ resp[r].success
         /\ resp[r].vectorCount = 0
         /\ op[r] = "notes.my-notes" =>
              /\ calls[r] = <<[endpoint |-> "notes-info", user_id |-> user[r], key |-> ""]>>
              /\ resp[r].records = UserNotes(user[r])
              /\ ~resp[r].synchronized
              /\ resp[r].message =
                   "Warning: Cannot connect to AI backend. Vector data may be missing."
         /\ op[r] = "youtube.my-videos" =>
              /\ calls[r] = <<[endpoint |-> "youtube-info", user_id |-> user[r], key |-> ""]>>
              /\ resp[r].records = UserVideos(user[r])
              /\ resp[r].flag =
                   "AI backend unavailable. Videos may not work with queries."
    /\ (Done(r) /\ op[r] \in {"notes.my-notes", "youtube.my-videos"}) =>
         /\ resp[r].status \in {200, 500}
         /\ resp[r].status = 500 <=> (calls[r] = <<>> /\ dbCalls[r] = <<"find">>)

\* a notes listing answered after a failed notes-info call, for a user who
\* has a record and vector data
C23_Witness ==
  \E r \in Reqs :
    /\ C23_InfoFailed(r)
    /\ op[r] = "notes.my-notes"
    /\ resp[r].records # {}
    /\ aiNotes # {}
    /\ resp[r].status = 200

\* C24: in the YouTube chat view a submitted non-blank question appends
\* exactly one user message, and the settling of its request appends exactly
\* one reply message, of type bot or error; the list of messages only grows
\* at its end, whatever callbacks overlap.
C24_UserMessageStep ==
  \A r \in Reqs :
    (client[r] = "" /\ client'[r] = "handleSubmitQuestion")
    => /\ messages' = Append(messages, [type |-> "user", content |-> arg'[r].question])
       /\ TrimQuestion(arg'[r].question) # ""

C24_ReplyStep ==
  \A r \in Reqs :
    (client[r] = "handleSubmitQuestion" /\ client'[r] = "")
    => /\ Len(messages') = Len(messages) + 1
       /\ messages'[Len(messages')].type \in {"bot", "error"}

C24_AppendOnlyStep ==
  /\ Len(messages') >= Len(messages)
  /\ SubSeq(messages', 1, Len(messages)) = messages

C24_AppendOnly == [][C24_UserMessageStep /\ C24_AppendOnlyStep]_vars

C24_OneReplyPerQuestion ==
  [][C24_UserMessageStep /\ C24_ReplyStep /\ C24_AppendOnlyStep]_vars

====
